---- MODULE Spec2Model ----
(***************************************************************************)
(* Model of the heartbeat-monitoring core of healthchecks:                 *)
(*   hc/api/models.py  Check (status engine, ping ingestion, pruning),     *)
(*                     Flip.send_alerts / Channel.notify,                  *)
(*                     TokenBucket.authorize                               *)
(*   hc/lib/s3.py      enc, put_object, remove_objects                     *)
(* Instants and durations are integers (seconds).  Strings that the code   *)
(* orders or slices (object keys) are sequences of character codes.        *)
(***************************************************************************)
EXTENDS Integers, Sequences, FiniteSets, TLC

VARIABLES
    check,          \* the Check row (one check, code "c1")
    pings,          \* table api_ping of that check, in id order
    flips,          \* table api_flip of that check, in id order
    notifications,  \* table api_notification of that check, in id order
    objects,        \* the archive bucket: a set of [code, key]
    settings,       \* S3_BUCKET (configured or not) and the owner's ping_log_limit
    now,            \* the clock, django.utils.timezone.now()
    pc,             \* position of the running Check.ping call (of each, when concurrent)
    call,           \* arguments and locals of the running Check.ping call (of each)
    threads,        \* the threads remove_objects has started
    enc_in,         \* the two numbers handed to enc, as decimal numerals
    enc_out,        \* what enc made of them
    bucket,         \* the TokenBucket row of one key
    bcfg,           \* the policy of that key: capacity and refill_time_secs
    bcalls,         \* what authorize returned to its callers (per caller, when concurrent)
    channels,       \* the Channel rows assigned to the check
    alert           \* the running Flip.send_alerts generator (or each concurrent notify)

ingestVars == <<check, pings, flips, objects, settings, pc, call, threads>>
encVars == <<enc_in, enc_out>>
bucketVars == <<bucket, bcfg, bcalls>>
alertVars == <<channels, alert>>

vars == <<ingestVars, notifications, now, encVars, bucketVars, alertVars>>

(***************************************************************************)
(* Bounds of the model.                                                    *)
(***************************************************************************)
MaxNow == 3
MaxPings == 2
MaxRetries == 1
CronCycle == 3

(***************************************************************************)
(* Program constants.                                                      *)
(***************************************************************************)
None == -1
NEVER == 1000000
BODY_INLINE_MAX == 100
PRUNE_EVERY == 100
ASCII_J == 106
ASCII_Z == 122
ORD_ZERO == 48
ORD_DASH == 45
ORD_SLASH == 47

Timeouts == {2}
Graces == {1}
Schedules == {{2}, {0, 1}}
Bodies == {BODY_INLINE_MAX, BODY_INLINE_MAX + 1}
Actions == {"success", "fail", "start", "ign"}

Min(a, b) == IF a <= b THEN a ELSE b

(***************************************************************************)
(* cronsim: the schedule is a set of residues of the instant modulo        *)
(* CronCycle; CronSim(schedule, t) iterates over the instants after t and  *)
(* yields the first that matches.                                          *)
(***************************************************************************)
CronMatch(schedule, t) == (t % CronCycle) \in schedule

RECURSIVE CronAdvance(_, _)
CronAdvance(schedule, t) ==
    IF CronMatch(schedule, t) THEN t ELSE CronAdvance(schedule, t + 1)

CronNext(schedule, t) == CronAdvance(schedule, t + 1)

(***************************************************************************)
(* Check.get_grace_start                                                   *)
(***************************************************************************)
\* line 179 clamping to last_start only for a check that is stored up
get_grace_start_up_only(c, with_started) ==
    LET base == IF c.kind = "simple" /\ c.status = "up"
                    THEN c.last_ping + c.timeout
                ELSE IF c.kind = "cron" /\ c.status = "up"
                    THEN CronNext(c.schedule, c.last_ping)
                ELSE NEVER
        result == IF with_started /\ c.last_start # None /\ c.status = "up"
                      THEN Min(base, c.last_start)
                      ELSE base
    IN IF result # NEVER THEN result ELSE None

get_grace_start(c, with_started) ==
    LET base == IF c.kind = "simple" /\ c.status = "up"
                    THEN c.last_ping + c.timeout
                ELSE IF c.kind = "cron" /\ c.status = "up"
                    THEN CronNext(c.schedule, c.last_ping)
                ELSE NEVER
        result == IF with_started /\ c.last_start # None /\ c.status # "down"
                      THEN Min(base, c.last_start)
                      ELSE base
    IN IF result # NEVER THEN result ELSE None

(***************************************************************************)
(* Check.going_down_after                                                  *)
(***************************************************************************)
going_down_after_no_grace(c) ==
    LET grace_start == get_grace_start(c, TRUE)
    IN IF grace_start # None THEN grace_start ELSE None

going_down_after(c) ==
    LET grace_start == get_grace_start(c, TRUE)
    IN IF grace_start # None THEN grace_start + c.grace ELSE None

(***************************************************************************)
(* Check.get_status, evaluated at instant t                                *)
(***************************************************************************)
\* line 216 with its comparison turned around
deadline_status_grace_first(t, grace_start, grace_end) ==
    IF t >= grace_end THEN "down"
    ELSE IF t < grace_start THEN "grace"
    ELSE "up"

\* lines 213-219
deadline_status_late(t, grace_start, grace_end) ==
    IF t > grace_end THEN "down"
    ELSE IF t >= grace_start THEN "grace"
    ELSE "up"

deadline_status(t, grace_start, grace_end) ==
    IF t >= grace_end THEN "down"
    ELSE IF t >= grace_start THEN "grace"
    ELSE "up"

\* lines 204-211 with the stored status looked at before the unfinished start
get_status_stored_first(c, t, with_started) ==
    IF c.status \in {"new", "paused", "down"} THEN c.status
    ELSE IF c.last_start # None /\ t >= c.last_start + c.grace THEN "down"
    ELSE IF c.last_start # None /\ with_started THEN "started"
    ELSE LET grace_start == get_grace_start(c, with_started)
             grace_end == grace_start + c.grace
         IN deadline_status(t, grace_start, grace_end)

get_status(c, t, with_started) ==
    IF c.last_start # None /\ t >= c.last_start + c.grace THEN "down"
    ELSE IF c.last_start # None /\ with_started THEN "started"
    ELSE IF c.status \in {"new", "paused", "down"} THEN c.status
    ELSE LET grace_start == get_grace_start(c, with_started)
             grace_end == grace_start + c.grace
         IN deadline_status(t, grace_start, grace_end)

(***************************************************************************)
(* Strings are sequences of character codes.  str(n) for an int n.         *)
(***************************************************************************)
RECURSIVE Digits(_)
Digits(n) == IF n < 10 THEN <<ORD_ZERO + n>>
             ELSE Digits(n \div 10) \o <<ORD_ZERO + (n % 10)>>

str(n) == IF n < 0 THEN <<ORD_DASH>> \o Digits(0 - n) ELSE Digits(n)

\* Python's (and the store's) order of strings: by the first position that
\* differs, a proper prefix first.
StrLess(a, b) ==
    \/ \E i \in 1..Min(Len(a), Len(b)) :
            /\ a[i] < b[i]
            /\ \A j \in 1..(i - 1) : a[j] = b[j]
    \/ /\ Len(a) < Len(b)
       /\ \A j \in 1..Len(a) : a[j] = b[j]

(***************************************************************************)
(* hc.lib.s3.enc on s = str(n).  chr() raises ValueError on a negative     *)
(* code point and int() on a character that is no digit.                   *)
(***************************************************************************)
IsDigit(ch) == ch >= ORD_ZERO /\ ch <= ORD_ZERO + 9

enc_raises(s) ==
    \/ ASCII_Z - Len(s) + 1 < 0
    \/ \E i \in 1..Len(s) : ~IsDigit(s[i])

\* the key without its length prefix
enc_key_no_length(s) ==
    LET inverted == [i \in 1..Len(s) |-> ASCII_J - (s[i] - ORD_ZERO)]
    IN inverted \o <<ORD_DASH>> \o s

enc_key(s) ==
    LET len_inverted == <<ASCII_Z - Len(s) + 1>>
        inverted == [i \in 1..Len(s) |-> ASCII_J - (s[i] - ORD_ZERO)]
    IN len_inverted \o inverted \o <<ORD_DASH>> \o s

enc(n) == enc_key(str(n))

\* A call of enc on the numeral s: the key, or the ValueError it raises.
enc_call(s) ==
    IF enc_raises(s) THEN [raised |-> TRUE, key |-> <<>>]
    ELSE [raised |-> FALSE, key |-> enc_key(s)]

(***************************************************************************)
(* Check.ping, lines 283-311: the changes made to the loaded instance c,   *)
(* the Flip it saves (a sequence of zero or one rows) and the action after *)
(* the manual_resume coercion.                                             *)
(***************************************************************************)
\* lines 293 and 301-302: a Flip is saved when a success or fail ping changes the status
flip_always(c, action) == action \notin {"start", "ign"}

flip_needed(c, action) ==
    /\ action \notin {"start", "ign"}
    /\ c.status # (IF action = "fail" THEN "down" ELSE "up")

\* lines 295-299 without line 297: the start stays unfinished
touch_keeps_start(c, action, frozen_now) ==
    IF action = "start" THEN [c EXCEPT !.last_start = frozen_now]
    ELSE IF action = "ign" THEN c
    ELSE [c EXCEPT
            !.last_ping = frozen_now,
            !.last_duration = IF c.last_start # None
                                  THEN frozen_now - c.last_start
                                  ELSE None]

\* lines 288-299: the timestamps, by the action after the coercion
touch(c, action, frozen_now) ==
    IF action = "start" THEN [c EXCEPT !.last_start = frozen_now]
    ELSE IF action = "ign" THEN c
    ELSE [c EXCEPT
            !.last_ping = frozen_now,
            !.last_duration = IF c.last_start # None
                                  THEN frozen_now - c.last_start
                                  ELSE None,
            !.last_start = None]

\* lines 283-311 without line 311: alert_after is left as it was loaded
ping_update_keeps_alert_after(c, action_arg, frozen_now) ==
    LET action == IF c.status = "paused" /\ c.manual_resume THEN "ign"
                  ELSE action_arg
        new_status == IF action = "fail" THEN "down" ELSE "up"
        touched == touch(c, action, frozen_now)
        flipped == flip_needed(c, action)
        flip == IF flipped
                    THEN <<[created |-> frozen_now, old_status |-> c.status,
                            new_status |-> new_status, processed |-> None]>>
                    ELSE <<>>
        moved == IF flipped THEN [touched EXCEPT !.status = new_status]
                 ELSE touched
    IN [obj |-> moved, flip |-> flip, action |-> action]

\* line 328 sending every body to the archive when one is configured
goes_to_archive_any_size(body, s3_bucket) == s3_bucket

ping_update(c, action_arg, frozen_now) ==
    LET action == IF c.status = "paused" /\ c.manual_resume THEN "ign"
                  ELSE action_arg
        new_status == IF action = "fail" THEN "down" ELSE "up"
        touched == touch(c, action, frozen_now)
        flipped == flip_needed(c, action)
        flip == IF flipped
                    THEN <<[created |-> frozen_now, old_status |-> c.status,
                            new_status |-> new_status, processed |-> None]>>
                    ELSE <<>>
        moved == IF flipped THEN [touched EXCEPT !.status = new_status]
                 ELSE touched
    IN [obj |-> [moved EXCEPT !.alert_after = going_down_after(moved)],
        flip |-> flip,
        action |-> action]

(***************************************************************************)
(* Check.ping, lines 312-315: save() writes the instance's fields and lets *)
(* the database add 1 to the stored counter; refresh_from_db() reads the   *)
(* row back.                                                               *)
(***************************************************************************)
\* lines 312-313 as a write of the instance's own counter plus one
save_check_cached(row, obj) == [obj EXCEPT !.n_pings = obj.n_pings + 1]

save_check(row, obj) == [obj EXCEPT !.n_pings = row.n_pings + 1]

(***************************************************************************)
(* Check.ping, lines 317-334: the Ping row.  A body is its length.         *)
(***************************************************************************)
goes_to_archive(body, s3_bucket) == body > BODY_INLINE_MAX /\ s3_bucket

ping_row(n, created, action, body, s3_bucket) ==
    [n |-> n,
     created |-> created,
     kind |-> IF action \in {"start", "fail", "ign"} THEN action ELSE "",
     object_size |-> IF goes_to_archive(body, s3_bucket) THEN body ELSE None,
     body_raw |-> IF goes_to_archive(body, s3_bucket) THEN None ELSE body]

(***************************************************************************)
(* Check.prune: what it leaves of the two tables, and the thread that      *)
(* remove_objects starts.                                                  *)
(***************************************************************************)
prune_threshold(c, ping_log_limit) == c.n_pings - ping_log_limit

prune_pings(rows, threshold) ==
    LET Kept(r) == ~(r.n <= threshold) IN SelectSeq(rows, Kept)

prune_notifications(notes, rows_left) ==
    IF rows_left = <<>> THEN notes
    ELSE LET Kept(x) == ~(x.created < rows_left[1].created)
         IN SelectSeq(notes, Kept)

\* lines 346-347 calling _remove_objects in the caller: a store that fails
\* ends the removal, and the call, before the local delete
prune_threads_inline(running, threshold, s3_bucket) ==
    IF s3_bucket
        THEN running \cup {[upto_n |-> threshold, at |-> "raised",
                             delete_objs |-> {}, errors |-> {}]}
        ELSE running

prune_threads(running, threshold, s3_bucket) ==
    IF s3_bucket
        THEN running \cup {[upto_n |-> threshold, at |-> "started",
                             delete_objs |-> {}, errors |-> {}]}
        ELSE running

(***************************************************************************)
(* Object names.  The check of the model has code "c1"; "c2" is another    *)
(* check of the same bucket.                                               *)
(***************************************************************************)
CODE == <<99, 49>>
OTHER_CODE == <<99, 50>>

object_key(code, n) == code \o <<ORD_SLASH>> \o enc(n)

HasPrefix(name, prefix) ==
    Len(name) >= Len(prefix) /\ SubSeq(name, 1, Len(prefix)) = prefix

\* list_objects with start_after as an inclusive bound
list_objects_inclusive(stored, prefix, start_after) ==
    {name \in stored : HasPrefix(name, prefix) /\ ~StrLess(name, start_after)}

\* client().list_objects(settings.S3_BUCKET, prefix, start_after=start_after)
list_objects(stored, prefix, start_after) ==
    {name \in stored : HasPrefix(name, prefix) /\ StrLess(start_after, name)}

\* _remove_objects, lines 92-93
remove_prefix(code) == code \o <<ORD_SLASH>>

remove_start_after_upto(code, upto_n) == remove_prefix(code) \o enc(upto_n)

remove_start_after(code, upto_n) == remove_prefix(code) \o enc(upto_n + 1)

(***************************************************************************)
(* Initial states.                                                         *)
(***************************************************************************)
Configs ==
    {[kind |-> "simple", schedule |-> 0..(CronCycle - 1)]}
    \cup {[kind |-> "cron", schedule |-> sch] : sch \in Schedules}

NewCheck(cfg, timeout, grace, manual_resume, status) ==
    [kind |-> cfg.kind, schedule |-> cfg.schedule, timeout |-> timeout,
     grace |-> grace, manual_resume |-> manual_resume, status |-> status,
     last_ping |-> None, last_start |-> None, last_duration |-> None,
     n_pings |-> 0, alert_after |-> None]

NoCall == [action |-> "", body |-> 0, n |-> 0, created |-> 0, tries |-> 0]

\* The parts of the state a specification does not use.
EncIdle == enc_in = <<>> /\ enc_out = <<>>
BucketIdle == bucket = <<>> /\ bcfg = <<>> /\ bcalls = <<>>
AlertIdle == channels = <<>> /\ alert = <<>>

Init ==
    /\ \E cfg \in Configs, timeout \in Timeouts, grace \in Graces,
          manual_resume \in BOOLEAN, status \in {"new", "paused"} :
            check = NewCheck(cfg, timeout, grace, manual_resume, status)
    /\ pings = <<>>
    /\ flips = <<>>
    /\ notifications = <<>>
    /\ objects = {}
    /\ \E s3 \in BOOLEAN : settings = [S3_BUCKET |-> s3, ping_log_limit |-> 100]
    /\ now = 0
    /\ pc = "idle"
    /\ call = NoCall
    /\ threads = {}
    /\ EncIdle /\ BucketIdle /\ AlertIdle

(***************************************************************************)
(* Check.ping, lines 317-338 after the body is placed: the Ping row is     *)
(* saved and every PRUNE_EVERY-th ping prunes.                             *)
(***************************************************************************)
ping_finish(n, row) ==
    LET saved == Append(pings, row)
        self == [check EXCEPT !.n_pings = n]
        threshold == prune_threshold(self, settings.ping_log_limit)
    IN IF n % PRUNE_EVERY = 0
           THEN /\ pings' = prune_pings(saved, threshold)
                /\ notifications' = prune_notifications(notifications, pings')
                /\ threads' = prune_threads(threads, threshold, settings.S3_BUCKET)
           ELSE /\ pings' = saved
                /\ UNCHANGED <<notifications, threads>>

(***************************************************************************)
(* Check.ping, serialized: the call runs to its put_object (when the body  *)
(* goes to the archive) or to its end.                                     *)
(***************************************************************************)
ping(action, body) ==
    /\ pc = "idle"
    /\ LET r == ping_update(check, action, now)
           saved == save_check(check, r.obj)
       IN /\ check' = saved
          /\ flips' = flips \o r.flip
          /\ IF goes_to_archive(body, settings.S3_BUCKET)
                 THEN /\ pc' = "put_object"
                      /\ call' = [action |-> r.action, body |-> body,
                                  n |-> saved.n_pings, created |-> now,
                                  tries |-> 0]
                      /\ UNCHANGED <<pings, notifications, threads>>
                 ELSE /\ pc' = "idle"
                      /\ call' = NoCall
                      /\ ping_finish(saved.n_pings,
                            ping_row(saved.n_pings, now, r.action, body,
                                     settings.S3_BUCKET))
    /\ UNCHANGED <<objects, settings, now, encVars, bucketVars, alertVars>>

PingCall(action, body) ==
    /\ check.n_pings < MaxPings
    /\ ping(action, body)

(***************************************************************************)
(* put_object: one pass of its loop per step.  The store answers each      *)
(* request with success, with InternalError or with another S3Error.       *)
(***************************************************************************)
PutObjectDone ==
    /\ pc = "put_object"
    /\ objects' = objects \cup {object_key(CODE, call.n)}
    /\ ping_finish(call.n, ping_row(call.n, call.created, call.action, call.body,
                                    settings.S3_BUCKET))
    /\ pc' = "idle"
    /\ call' = NoCall
    /\ UNCHANGED <<check, flips, settings, now, encVars, bucketVars, alertVars>>

\* the except branch of lines 85-88 giving up on InternalError: the loop is
\* left as if the write had succeeded
PutObjectRetry_gives_up ==
    /\ pc = "put_object"
    /\ call.tries < MaxRetries
    /\ ping_finish(call.n, ping_row(call.n, call.created, call.action, call.body,
                                    settings.S3_BUCKET))
    /\ pc' = "idle"
    /\ call' = NoCall
    /\ UNCHANGED <<check, flips, objects, settings, now, encVars, bucketVars,
                   alertVars>>

PutObjectRetry ==
    /\ pc = "put_object"
    /\ call.tries < MaxRetries
    /\ call' = [call EXCEPT !.tries = @ + 1]
    /\ UNCHANGED <<check, pings, flips, notifications, objects, settings, now,
                   pc, threads, encVars, bucketVars, alertVars>>

PutObjectRaise ==
    /\ pc = "put_object"
    /\ pc' = "idle"
    /\ call' = NoCall
    /\ UNCHANGED <<check, pings, flips, notifications, objects, settings, now,
                   threads, encVars, bucketVars, alertVars>>

(***************************************************************************)
(* Time passes.                                                            *)
(***************************************************************************)
Tick ==
    /\ now < MaxNow
    /\ now' = now + 1
    /\ UNCHANGED <<ingestVars, notifications, encVars, bucketVars, alertVars>>

Next ==
    \/ \E action \in Actions, body \in Bodies : PingCall(action, body)
    \/ PutObjectDone
    \/ PutObjectRetry
    \/ PutObjectRaise
    \/ Tick

Spec == Init /\ [][Next]_vars

(***************************************************************************)
(* _remove_objects on its thread: the listing, then the batch delete.  The *)
(* store answers the listing with the keys or with an S3Error, and the     *)
(* delete with the errors of the objects it could not delete.              *)
(***************************************************************************)
ThreadList(th, answer) ==
    /\ th \in threads
    /\ th.at = "started"
    /\ LET raises == enc_raises(str(th.upto_n + 1)) \/ answer # "ok"
           q == list_objects(objects, remove_prefix(CODE),
                             remove_start_after(CODE, th.upto_n))
           after == IF raises THEN [th EXCEPT !.at = "raised"]
                    ELSE IF q = {} THEN [th EXCEPT !.at = "done"]
                    ELSE [th EXCEPT !.at = "listed", !.delete_objs = q]
       IN threads' = (threads \ {th}) \cup {after}
    /\ UNCHANGED <<check, pings, flips, notifications, objects, settings, now,
                   pc, call, encVars, bucketVars, alertVars>>

ThreadRemove(th, errors) ==
    /\ th \in threads
    /\ th.at = "listed"
    /\ errors \subseteq th.delete_objs
    /\ objects' = objects \ (th.delete_objs \ errors)
    /\ threads' = (threads \ {th}) \cup {[th EXCEPT !.at = "done", !.errors = errors]}
    /\ UNCHANGED <<check, pings, flips, notifications, settings, now, pc, call,
                   encVars, bucketVars, alertVars>>

(***************************************************************************)
(* Pruning: the check has received PRUNE_EVERY - MaxPings success pings,   *)
(* some of them with archived bodies; the archive also holds objects of    *)
(* another check.                                                          *)
(***************************************************************************)
PruneStart == PRUNE_EVERY - MaxPings
ArchivedCandidates == {9, 10, PruneStart}
PingLogLimits == {0, 1, 90, 91, 100, 1000}
OtherObjects == {object_key(OTHER_CODE, 9), object_key(OTHER_CODE, 10)}

InitPrune ==
    /\ \E s3 \in BOOLEAN, limit \in PingLogLimits :
            settings = [S3_BUCKET |-> s3, ping_log_limit |-> limit]
    /\ \E archived \in SUBSET ArchivedCandidates :
        /\ settings.S3_BUCKET \/ archived = {}
        /\ pings = [n \in 1..PruneStart |->
                        ping_row(n, 0, "success",
                                 IF n \in archived THEN BODY_INLINE_MAX + 1
                                 ELSE BODY_INLINE_MAX,
                                 settings.S3_BUCKET)]
        /\ objects = {object_key(CODE, n) : n \in archived} \cup OtherObjects
    /\ check = [NewCheck([kind |-> "simple", schedule |-> 0..(CronCycle - 1)],
                         2, 1, FALSE, "up")
                   EXCEPT !.last_ping = 0, !.n_pings = PruneStart,
                          !.alert_after = 3]
    /\ flips = <<[created |-> 0, old_status |-> "new", new_status |-> "up",
                  processed |-> None]>>
    /\ notifications = <<>>
    /\ now = 0
    /\ pc = "idle"
    /\ call = NoCall
    /\ threads = {}
    /\ EncIdle /\ BucketIdle /\ AlertIdle

PrunePing(body) ==
    /\ check.n_pings < PRUNE_EVERY
    /\ ping("success", body)

NextPrune ==
    \/ \E body \in Bodies : PrunePing(body)
    \/ PutObjectDone
    \/ PutObjectRetry
    \/ PutObjectRaise
    \/ \E th \in threads, answer \in {"ok", "S3Error"} : ThreadList(th, answer)
    \/ \E th \in threads : \E errors \in SUBSET th.delete_objs : ThreadRemove(th, errors)

SpecPrune == InitPrune /\ [][NextPrune]_vars

(***************************************************************************)
(* The same program with a store that does not answer InternalError        *)
(* forever: a pending put_object eventually gets an answer that ends its   *)
(* loop, a success or another S3Error.                                     *)
(***************************************************************************)
SpecStoreAnswers == SpecPrune /\ WF_vars(PutObjectDone \/ PutObjectRaise)

(***************************************************************************)
(* Ingestion across a pruning ping: the pings before the PRUNE_EVERY-th,   *)
(* that one, and the pings after it.                                       *)
(***************************************************************************)
RetentionPing(body) ==
    /\ check.n_pings < PRUNE_EVERY + MaxPings
    /\ ping("success", body)

NextRetention ==
    \/ \E body \in Bodies : RetentionPing(body)
    \/ PutObjectDone
    \/ PutObjectRetry
    \/ PutObjectRaise
    \/ \E th \in threads, answer \in {"ok", "S3Error"} : ThreadList(th, answer)
    \/ \E th \in threads : \E errors \in SUBSET th.delete_objs : ThreadRemove(th, errors)

SpecRetention == InitPrune /\ [][NextRetention]_vars

(***************************************************************************)
(* Pruning while the database fails: the delete of the Ping rows (line     *)
(* 350) or the delete of the Notification rows (line 354) raises.  The     *)
(* thread of remove_objects was started before, and the exception leaves   *)
(* Check.ping; pc = "raised" is a call that ended with an exception of     *)
(* the local store.                                                        *)
(***************************************************************************)
LocalDeletes == {"pings", "notifications"}

prune_raises(n, row, failing) ==
    LET saved == Append(pings, row)
        self == [check EXCEPT !.n_pings = n]
        threshold == prune_threshold(self, settings.ping_log_limit)
    IN /\ n % PRUNE_EVERY = 0
       /\ threads' = prune_threads(threads, threshold, settings.S3_BUCKET)
       /\ IF failing = "pings" THEN pings' = saved
          ELSE /\ pings' = prune_pings(saved, threshold)
               /\ pings' # <<>>
       /\ UNCHANGED notifications

PingPruneRaises(body, failing) ==
    /\ pc = "idle"
    /\ check.n_pings < PRUNE_EVERY
    /\ ~goes_to_archive(body, settings.S3_BUCKET)
    /\ LET r == ping_update(check, "success", now)
           saved == save_check(check, r.obj)
       IN /\ check' = saved
          /\ flips' = flips \o r.flip
          /\ prune_raises(saved.n_pings,
                          ping_row(saved.n_pings, now, r.action, body,
                                   settings.S3_BUCKET),
                          failing)
    /\ pc' = "raised"
    /\ call' = NoCall
    /\ UNCHANGED <<objects, settings, now, encVars, bucketVars, alertVars>>

PutObjectDonePruneRaises(failing) ==
    /\ pc = "put_object"
    /\ objects' = objects \cup {object_key(CODE, call.n)}
    /\ prune_raises(call.n,
                    ping_row(call.n, call.created, call.action, call.body,
                             settings.S3_BUCKET),
                    failing)
    /\ pc' = "raised"
    /\ call' = NoCall
    /\ UNCHANGED <<check, flips, settings, now, encVars, bucketVars, alertVars>>

NextPruneFaulty ==
    \/ NextPrune
    \/ \E body \in Bodies, failing \in LocalDeletes : PingPruneRaises(body, failing)
    \/ \E failing \in LocalDeletes : PutObjectDonePruneRaises(failing)

SpecPruneFaulty == InitPrune /\ [][NextPruneFaulty]_vars

(***************************************************************************)
(* TokenBucket.tokens is a FloatField: an IEEE 754 double.  A double in    *)
(* [0, 2) is held exactly, as a multiple of 2^-FRACTION_BITS written in    *)
(* limbs of LIMB_BITS bits, lowest first; each operation is computed       *)
(* exactly and rounded to MANTISSA_BITS significant bits, ties to even.    *)
(***************************************************************************)
MANTISSA_BITS == 53
LIMB_BITS == 12
FRACTION_LIMBS == 6
LIMB == 2 ^ LIMB_BITS
LIMBS == FRACTION_LIMBS + 1
FRACTION_BITS == LIMB_BITS * FRACTION_LIMBS

FloatZero == [i \in 1..LIMBS |-> 0]
FloatOne == [i \in 1..LIMBS |-> IF i = LIMBS THEN 1 ELSE 0]

RECURSIVE AddLimbs(_, _, _, _)
AddLimbs(a, b, i, carry) ==
    IF i > LIMBS THEN <<>>
    ELSE LET x == a[i] + b[i] + carry
         IN <<x % LIMB>> \o AddLimbs(a, b, i + 1, x \div LIMB)

RECURSIVE SubLimbs(_, _, _, _)
SubLimbs(a, b, i, borrow) ==
    IF i > LIMBS THEN <<>>
    ELSE LET x == a[i] - b[i] - borrow
         IN IF x < 0 THEN <<x + LIMB>> \o SubLimbs(a, b, i + 1, 1)
            ELSE <<x>> \o SubLimbs(a, b, i + 1, 0)

RECURSIVE LessFrom(_, _, _)
LessFrom(a, b, i) ==
    IF i = 0 THEN FALSE
    ELSE IF a[i] # b[i] THEN a[i] < b[i]
    ELSE LessFrom(a, b, i - 1)

\* exact a + b, exact a - b (for a >= b), and a < b
ExactAdd(a, b) == AddLimbs(a, b, 1, 0)
ExactSub(a, b) == SubLimbs(a, b, 1, 0)
FloatLess(a, b) == LessFrom(a, b, LIMBS)

RECURSIVE BitLength(_)
BitLength(x) == IF x = 0 THEN 0 ELSE 1 + BitLength(x \div 2)

RECURSIVE BitsFrom(_, _)
BitsFrom(a, i) ==
    IF i = 0 THEN 0
    ELSE IF a[i] # 0 THEN LIMB_BITS * (i - 1) + BitLength(a[i])
    ELSE BitsFrom(a, i - 1)

\* the number of significant bits of a
Bits(a) == BitsFrom(a, LIMBS)

\* 2^k, and a modulo 2^k
PowerOfTwo(k) ==
    [i \in 1..LIMBS |-> IF i = (k \div LIMB_BITS) + 1 THEN 2 ^ (k % LIMB_BITS) ELSE 0]

ModPowerOfTwo(a, k) ==
    [i \in 1..LIMBS |->
        IF LIMB_BITS * i <= k THEN a[i]
        ELSE IF LIMB_BITS * (i - 1) < k THEN a[i] % (2 ^ (k - LIMB_BITS * (i - 1)))
        ELSE 0]

BitAt(a, k) == (a[(k \div LIMB_BITS) + 1] \div (2 ^ (k % LIMB_BITS))) % 2

\* a, with a non-zero remainder below its last bit when sticky, rounded to
\* MANTISSA_BITS significant bits, ties to even
RoundToDouble(a, sticky) ==
    LET drop == Bits(a) - MANTISSA_BITS
    IN IF drop <= 0 THEN a
       ELSE LET low == ModPowerOfTwo(a, drop)
                half == PowerOfTwo(drop - 1)
                down == ExactSub(a, low)
                up == \/ FloatLess(half, low)
                      \/ low = half /\ (sticky \/ BitAt(a, drop) = 1)
            IN IF up THEN ExactAdd(down, PowerOfTwo(drop)) ELSE down

\* the limbs of n / d for 0 <= n < d, highest first, and the remainder
RECURSIVE QuotientLimbs(_, _, _)
QuotientLimbs(rem, d, count) ==
    IF count = 0 THEN [limbs |-> <<>>, rem |-> rem]
    ELSE LET x == rem * LIMB
             rest == QuotientLimbs(x % d, d, count - 1)
         IN [limbs |-> rest.limbs \o <<x \div d>>, rem |-> rest.rem]

\* the double n / d, for integers 0 <= n <= d, d > 0
FloatDivide(n, d) ==
    IF n = d THEN FloatOne
    ELSE LET q == QuotientLimbs(n, d, FRACTION_LIMBS)
         IN RoundToDouble(q.limbs \o <<0>>, q.rem # 0)

FloatAdd(a, b) == RoundToDouble(ExactAdd(a, b), FALSE)
FloatSub(a, b) == RoundToDouble(ExactSub(a, b), FALSE)

(***************************************************************************)
(* TokenBucket.authorize(value, capacity, refill_time_secs) at frozen_now  *)
(* on the row of the key (<<>> when the key has no row yet): what it       *)
(* returns, the row it leaves, and the balance it had after the top-up.    *)
(***************************************************************************)
\* line 943; the clock is never behind obj.updated and obj.tokens is never
\* negative, so a delta of refill_time_secs or more tops the bucket up to 1.0
top_up(tokens, delta_secs, refill_time_secs) ==
    IF delta_secs >= refill_time_secs THEN FloatOne
    ELSE LET sum == FloatAdd(tokens, FloatDivide(delta_secs, refill_time_secs))
         IN IF FloatLess(FloatOne, sum) THEN FloatOne ELSE sum

\* lines 947-948, had the rejected call saved the row before returning
rejected_row_saved(obj, topped, frozen_now) ==
    [tokens |-> topped, updated |-> frozen_now]

\* lines 947-948: a rejected call returns before obj.save()
rejected_row(obj, topped, frozen_now) == obj

\* line 943 without the cap of min(1.0, ...)
refill_uncapped(created, obj, refill_time_secs, frozen_now) ==
    IF created THEN obj.tokens
    ELSE IF frozen_now - obj.updated >= refill_time_secs
        THEN ExactAdd(obj.tokens, FloatOne)
    ELSE FloatAdd(obj.tokens,
                  FloatDivide(frozen_now - obj.updated, refill_time_secs))

refill(created, obj, refill_time_secs, frozen_now) ==
    IF created THEN obj.tokens
    ELSE top_up(obj.tokens, frozen_now - obj.updated, refill_time_secs)

\* line 945 with half the debit
debit_half(capacity) == FloatDivide(1, 2 * capacity)

debit(capacity) == FloatDivide(1, capacity)

authorize(row, capacity, refill_time_secs, frozen_now) ==
    LET created == row = <<>>
        obj == IF created THEN [tokens |-> FloatOne, updated |-> frozen_now]
               ELSE row
        topped == refill(created, obj, refill_time_secs, frozen_now)
        charged == debit(capacity)
    IN IF FloatLess(topped, charged)
           THEN [ok |-> FALSE, topped |-> topped,
                 row |-> rejected_row(obj, topped, frozen_now)]
           ELSE [ok |-> TRUE, topped |-> topped,
                 row |-> [tokens |-> FloatSub(topped, charged),
                          updated |-> frozen_now]]

(***************************************************************************)
(* One key under one of the policies of the code; its callers call         *)
(* authorize one after another, at instants that are multiples of a        *)
(* fraction of the refill period.                                          *)
(***************************************************************************)
MaxBucketTicks == 4
BucketSlots == 3
MaxExtraCalls == 2

Policies ==
    {[capacity |-> 1, refill_time_secs |-> 90],
     [capacity |-> 6, refill_time_secs |-> 60],
     [capacity |-> 20, refill_time_secs |-> 3600]}

BucketStep == bcfg.refill_time_secs \div BucketSlots

NoCalls == [n |-> 0, first |-> 0, prev |-> 0, at |-> 0, ok |-> TRUE,
            topped |-> FloatZero, burst |-> 0]

InitBucket ==
    /\ bcfg \in Policies
    /\ bucket = <<>>
    /\ bcalls = NoCalls
    /\ now = 0
    /\ check = NewCheck([kind |-> "simple", schedule |-> 0..(CronCycle - 1)],
                        2, 1, FALSE, "new")
    /\ pings = <<>>
    /\ flips = <<>>
    /\ notifications = <<>>
    /\ objects = {}
    /\ settings = [S3_BUCKET |-> FALSE, ping_log_limit |-> 100]
    /\ pc = "idle"
    /\ call = NoCall
    /\ threads = {}
    /\ EncIdle /\ AlertIdle

\* bcalls: the number of calls made, the instants of the first, the previous
\* and the latest call, the latest call's result and topped-up balance, and
\* the number of calls authorized at the instant of the latest call.
Authorize ==
    /\ bcalls.n < bcfg.capacity + MaxExtraCalls
    /\ LET r == authorize(bucket, bcfg.capacity, bcfg.refill_time_secs, now)
       IN /\ bucket' = r.row
          /\ bcalls' = [n |-> bcalls.n + 1,
                        first |-> IF bcalls.n = 0 THEN now ELSE bcalls.first,
                        prev |-> IF bcalls.n = 0 THEN now ELSE bcalls.at,
                        at |-> now,
                        ok |-> r.ok,
                        topped |-> r.topped,
                        burst |-> (IF bcalls.n > 0 /\ bcalls.at = now
                                       THEN bcalls.burst ELSE 0)
                                  + (IF r.ok THEN 1 ELSE 0)]
    /\ UNCHANGED <<ingestVars, notifications, now, bcfg, encVars, alertVars>>

BucketTick ==
    /\ now < MaxBucketTicks * BucketStep
    /\ now' = now + BucketStep
    /\ UNCHANGED <<ingestVars, notifications, bucketVars, encVars, alertVars>>

NextBucket ==
    \/ Authorize
    \/ BucketTick

SpecBucket == InitBucket /\ [][NextBucket]_vars

(***************************************************************************)
(* TokenBucket.authorize_totp_code called by several requests at once for  *)
(* the same user and code: authorize(value, 1, 90).  Its two statements    *)
(* that reach the database, get_or_create and save, are one step each;     *)
(* here bcalls holds one entry per request: its position, the instance it  *)
(* read, its frozen_now, its result and the requests that had returned     *)
(* when it began.                                                          *)
(***************************************************************************)
MaxCallers == 2

Callers == 1..MaxCallers

TOTP_CAPACITY == 1
TOTP_PERIOD == 90

Returned == {p \in Callers : bcalls[p].pc = "returned"}

InitTotp ==
    /\ bcfg = [capacity |-> TOTP_CAPACITY, refill_time_secs |-> TOTP_PERIOD]
    /\ bucket = <<>>
    /\ bcalls = [p \in Callers |->
                    [pc |-> "idle", obj |-> <<>>, created |-> FALSE,
                     frozen_now |-> 0, ok |-> FALSE, after |-> {}]]
    /\ now = 0
    /\ check = NewCheck([kind |-> "simple", schedule |-> 0..(CronCycle - 1)],
                        2, 1, FALSE, "new")
    /\ pings = <<>>
    /\ flips = <<>>
    /\ notifications = <<>>
    /\ objects = {}
    /\ settings = [S3_BUCKET |-> FALSE, ping_log_limit |-> 100]
    /\ pc = "idle"
    /\ call = NoCall
    /\ threads = {}
    /\ EncIdle /\ AlertIdle

\* lines 937-938: frozen_now = now() and get_or_create
TotpGet(p) ==
    /\ bcalls[p].pc = "idle"
    /\ LET created == bucket = <<>>
           row == IF created THEN [tokens |-> FloatOne, updated |-> now]
                  ELSE bucket
       IN /\ bucket' = row
          /\ bcalls' = [bcalls EXCEPT ![p] =
                            [pc |-> "got", obj |-> row, created |-> created,
                             frozen_now |-> now, ok |-> FALSE,
                             after |-> Returned]]
    /\ UNCHANGED <<ingestVars, notifications, now, bcfg, encVars, alertVars>>

\* lines 940-956 on the instance that was read: top-up, debit, and either
\* return False or save the instance and return True
TotpDecide(p) ==
    /\ bcalls[p].pc = "got"
    /\ LET me == bcalls[p]
           r == authorize(IF me.created THEN <<>> ELSE me.obj, bcfg.capacity,
                          bcfg.refill_time_secs, me.frozen_now)
       IN /\ bucket' = IF r.ok THEN r.row ELSE bucket
          /\ bcalls' = [bcalls EXCEPT ![p].pc = "returned", ![p].ok = r.ok,
                                      ![p].obj = r.row]
    /\ UNCHANGED <<ingestVars, notifications, now, bcfg, encVars, alertVars>>

NextTotp ==
    \/ \E p \in Callers : TotpGet(p)
    \/ \E p \in Callers : TotpDecide(p)
    \/ BucketTick

SpecTotp == InitTotp /\ [][NextTotp]_vars

(***************************************************************************)
(* Flip.send_alerts, a generator, and Channel.notify.  The flip belongs to *)
(* the check of the model; channels holds the Channel rows assigned to the *)
(* check, in the order the query returns them.  alert keeps, next to the   *)
(* generator's position, the rows as they were when it was created, the    *)
(* channels notify was called on, those whose transport was a no-op and    *)
(* what the transports answered.                                           *)
(***************************************************************************)
MaxChannels == 2

DisabledValues == {"true", "false", "null"}
FlipOldStatuses == {"new", "paused", "up", "down"}
FlipNewStatuses == {"up", "down", "paused", "new"}

\* TransportError(message, permanent); an empty message is a send that worked
TransportOutcomes ==
    {[error |-> "", permanent |-> FALSE],
     [error |-> "failed", permanent |-> FALSE],
     [error |-> "failed", permanent |-> TRUE]}

\* line 915 with "paused" left out
suppressed_new_only(flip) ==
    flip.new_status = "up" /\ flip.old_status \in {"new"}

suppressed(flip) ==
    flip.new_status = "up" /\ flip.old_status \in {"new", "paused"}

\* line 918 with "paused" let through
unexpected_but_paused(flip) == flip.new_status \notin {"up", "down", "paused"}

unexpected(flip) == flip.new_status \notin {"up", "down"}

\* line 921 as filter(disabled=False): NULL rows are left out
enabled_channels_false_only(rows) ==
    LET Enabled(i) == rows[i].disabled = "false"
    IN SelectSeq([i \in 1..Len(rows) |-> i], Enabled)

\* owner.channel_set.exclude(disabled=True): NULL rows stay in
enabled_channels(rows) ==
    LET Enabled(i) == rows[i].disabled # "true"
    IN SelectSeq([i \in 1..Len(rows) |-> i], Enabled)

sending(notes, owner, channel, created) ==
    Append(notes, [owner |-> "c1", channel |-> channel,
                   check_status |-> owner.status, error |-> "Sending",
                   created |-> created])

\* line 586 disabling the channel on any TransportError
notify_result_any_error(row, outcome, frozen_now) ==
    [disabled |-> IF outcome.error # "" THEN "true" ELSE row.disabled,
     last_notify |-> frozen_now,
     last_error |-> outcome.error]

notify_result(row, outcome, frozen_now) ==
    [disabled |-> IF outcome.permanent THEN "true" ELSE row.disabled,
     last_notify |-> frozen_now,
     last_error |-> outcome.error]

InitAlerts ==
    /\ \E k \in 0..MaxChannels :
         channels \in [1..k -> [disabled : DisabledValues,
                                last_notify : {None}, last_error : {""}]]
    /\ \E old \in FlipOldStatuses, new \in FlipNewStatuses :
         /\ alert = [flip |-> [old_status |-> old, new_status |-> new],
                     pc |-> "created", todo |-> <<>>, yielded |-> <<>>,
                     invoked |-> 0, before |-> channels,
                     attempted |-> <<>>, noops |-> <<>>, answers |-> <<>>]
         /\ check = NewCheck([kind |-> "simple", schedule |-> 0..(CronCycle - 1)],
                             2, 1, FALSE, new)
    /\ now = 0
    /\ pings = <<>>
    /\ flips = <<>>
    /\ notifications = <<>>
    /\ objects = {}
    /\ settings = [S3_BUCKET |-> FALSE, ping_log_limit |-> 100]
    /\ pc = "idle"
    /\ call = NoCall
    /\ threads = {}
    /\ EncIdle /\ BucketIdle

\* The first next() on the generator, up to the evaluation of the query.
SendAlerts ==
    /\ alert.pc = "created"
    /\ alert' = IF suppressed(alert.flip) THEN [alert EXCEPT !.pc = "returned"]
                ELSE IF unexpected(alert.flip) THEN [alert EXCEPT !.pc = "raised"]
                ELSE [alert EXCEPT !.pc = "loop",
                                   !.todo = enabled_channels(channels)]
    /\ UNCHANGED <<ingestVars, notifications, now, channels, encVars, bucketVars>>

\* Channel.notify up to the call of the transport: a no-op channel is skipped,
\* any other gets its Notification row saved with error "Sending".
NotifyBegin ==
    /\ alert.pc = "loop"
    /\ alert.todo # <<>>
    /\ \E is_noop \in BOOLEAN :
         IF is_noop
             THEN /\ alert' = [alert EXCEPT
                                !.todo = Tail(@),
                                !.attempted = Append(@, Head(alert.todo)),
                                !.noops = Append(@, Head(alert.todo))]
                  /\ UNCHANGED notifications
             ELSE /\ notifications' =
                        sending(notifications, check, Head(alert.todo), now)
                  /\ alert' = [alert EXCEPT
                                !.pc = "sending",
                                !.attempted = Append(@, Head(alert.todo)),
                                !.invoked = @ + 1]
    /\ UNCHANGED <<ingestVars, now, channels, encVars, bucketVars>>

\* The transport answers; notify updates both rows and send_alerts yields.
NotifyEnd ==
    /\ alert.pc = "sending"
    /\ \E outcome \in TransportOutcomes :
         LET id == Head(alert.todo) IN
         /\ notifications' =
                [notifications EXCEPT ![Len(notifications)].error = outcome.error]
         /\ channels' =
                [channels EXCEPT ![id] = notify_result(channels[id], outcome, now)]
         /\ alert' = [alert EXCEPT !.pc = "loop",
                                   !.todo = Tail(@),
                                   !.answers = Append(@, outcome),
                                   !.yielded = Append(@, [channel |-> id,
                                                          error |-> outcome.error])]
    /\ UNCHANGED <<ingestVars, now, encVars, bucketVars>>

\* The query is exhausted: the generator returns.
SendAlertsReturn ==
    /\ alert.pc = "loop"
    /\ alert.todo = <<>>
    /\ alert' = [alert EXCEPT !.pc = "returned"]
    /\ UNCHANGED <<ingestVars, notifications, now, channels, encVars, bucketVars>>

NextAlerts ==
    \/ SendAlerts
    \/ NotifyBegin
    \/ NotifyEnd
    \/ SendAlertsReturn
    \/ Tick

SpecAlerts == InitAlerts /\ [][NextAlerts]_vars

(***************************************************************************)
(* Check.ping called by several requests at once on the same check.  Each  *)
(* request holds its own instance of the Check (call[p].self), read from   *)
(* the row before the call; every statement that reaches the database is   *)
(* one step.  Here pc and call hold one entry per request.                 *)
(***************************************************************************)
MaxRequests == 2

Requests == 1..MaxRequests

InitRace ==
    /\ \E status \in {"new", "paused"}, manual_resume \in BOOLEAN :
         check = NewCheck([kind |-> "simple", schedule |-> 0..(CronCycle - 1)],
                          2, 1, manual_resume, status)
    /\ pings = <<>>
    /\ flips = <<>>
    /\ notifications = <<>>
    /\ objects = {}
    /\ settings = [S3_BUCKET |-> FALSE, ping_log_limit |-> 100]
    /\ now = 0
    /\ pc = [p \in Requests |-> "idle"]
    /\ call = [p \in Requests |-> [self |-> check, action_arg |-> "",
                                   action |-> "", frozen_now |-> 0]]
    /\ threads = {}
    /\ EncIdle /\ BucketIdle /\ AlertIdle

\* The request reads the Check row and calls ping on the instance.
RaceGet(p, action) ==
    /\ pc[p] = "idle"
    /\ pc' = [pc EXCEPT ![p] = "called"]
    /\ call' = [call EXCEPT ![p] = [self |-> check, action_arg |-> action,
                                    action |-> action, frozen_now |-> 0]]
    /\ UNCHANGED <<check, pings, flips, notifications, objects, settings, now,
                   threads, encVars, bucketVars, alertVars>>

\* lines 283-311: the instance is updated and the Flip, if any, is saved.
\* The clock moves on between one request's now() and the next one's.
RaceUpdate(p) ==
    /\ pc[p] = "called"
    /\ now' = now + 1
    /\ LET r == ping_update(call[p].self, call[p].action_arg, now)
       IN /\ flips' = flips \o r.flip
          /\ call' = [call EXCEPT ![p].self = r.obj,
                                  ![p].action = r.action,
                                  ![p].frozen_now = now]
    /\ pc' = [pc EXCEPT ![p] = "updated"]
    /\ UNCHANGED <<check, pings, notifications, objects, settings,
                   threads, encVars, bucketVars, alertVars>>

\* lines 312-314: self.save() writes every field of the instance and lets
\* the database add 1 to the stored counter.
RaceSave(p) ==
    /\ pc[p] = "updated"
    /\ check' = save_check(check, call[p].self)
    /\ pc' = [pc EXCEPT ![p] = "saved"]
    /\ UNCHANGED <<pings, flips, notifications, objects, settings, now, call,
                   threads, encVars, bucketVars, alertVars>>

\* line 315: self.refresh_from_db()
RaceRefresh(p) ==
    /\ pc[p] = "saved"
    /\ call' = [call EXCEPT ![p].self = check]
    /\ pc' = [pc EXCEPT ![p] = "refreshed"]
    /\ UNCHANGED <<check, pings, flips, notifications, objects, settings, now,
                   threads, encVars, bucketVars, alertVars>>

\* lines 317-338: the Ping row, with an inline body.
RaceRow(p) ==
    /\ pc[p] = "refreshed"
    /\ ping_finish(call[p].self.n_pings,
                   ping_row(call[p].self.n_pings, call[p].frozen_now,
                            call[p].action, BODY_INLINE_MAX, settings.S3_BUCKET))
    /\ pc' = [pc EXCEPT ![p] = "done"]
    /\ UNCHANGED <<check, flips, objects, settings, now, call,
                   encVars, bucketVars, alertVars>>

NextRace ==
    \/ \E p \in Requests, action \in Actions : RaceGet(p, action)
    \/ \E p \in Requests : RaceUpdate(p)
    \/ \E p \in Requests : RaceSave(p)
    \/ \E p \in Requests : RaceRefresh(p)
    \/ \E p \in Requests : RaceRow(p)

SpecRace == InitRace /\ [][NextRace]_vars

(***************************************************************************)
(* Channel.notify run by several senders at once on the same channel (two  *)
(* flips of checks that share it, or a test notification next to an        *)
(* alert).  Each sender holds its own instance of the Channel, read when   *)
(* its query ran; every statement that reaches the database or the         *)
(* transport is one step.  Here alert holds one entry per sender.          *)
(***************************************************************************)
MaxSenders == 2

Senders == 1..MaxSenders

THE_CHANNEL == 1

InitNotify ==
    /\ \E disabled \in DisabledValues :
         channels = <<[disabled |-> disabled, last_notify |-> None,
                       last_error |-> ""]>>
    /\ alert = [p \in Senders |-> [pc |-> "idle", self |-> <<>>, id |-> 0]]
    /\ check = NewCheck([kind |-> "simple", schedule |-> 0..(CronCycle - 1)],
                        2, 1, FALSE, "down")
    /\ now = 0
    /\ pings = <<>>
    /\ flips = <<>>
    /\ notifications = <<>>
    /\ objects = {}
    /\ settings = [S3_BUCKET |-> FALSE, ping_log_limit |-> 100]
    /\ pc = "idle"
    /\ call = NoCall
    /\ threads = {}
    /\ EncIdle /\ BucketIdle

\* line 921: the sender's query reads the row; a disabled channel is left out
NotifyGet(p) ==
    /\ alert[p].pc = "idle"
    /\ alert' = [alert EXCEPT
                    ![p].self = channels[THE_CHANNEL],
                    ![p].pc = IF enabled_channels(channels) = <<>>
                                  THEN "skipped" ELSE "got"]
    /\ UNCHANGED <<ingestVars, notifications, now, channels, encVars, bucketVars>>

\* lines 567-584: no-op, or the Notification saved with error "Sending"
NotifySending(p) ==
    /\ alert[p].pc = "got"
    /\ \E is_noop \in BOOLEAN :
         IF is_noop
             THEN /\ alert' = [alert EXCEPT ![p].pc = "no-op"]
                  /\ UNCHANGED notifications
             ELSE /\ notifications' =
                        sending(notifications, check, THE_CHANNEL, now)
                  /\ alert' = [alert EXCEPT ![p].pc = "sending",
                                            ![p].id = Len(notifications')]
    /\ UNCHANGED <<ingestVars, now, channels, encVars, bucketVars>>

\* lines 584-594: the transport answers; the Notification and the Channel
\* row are updated, the row from the sender's own instance
NotifyAnswer(p) ==
    /\ alert[p].pc = "sending"
    /\ \E outcome \in TransportOutcomes :
         /\ notifications' =
                [notifications EXCEPT ![alert[p].id].error = outcome.error]
         /\ channels' =
                [channels EXCEPT
                    ![THE_CHANNEL] = notify_result(alert[p].self, outcome, now)]
    /\ alert' = [alert EXCEPT ![p].pc = "returned"]
    /\ UNCHANGED <<ingestVars, now, encVars, bucketVars>>

NextNotify ==
    \/ \E p \in Senders : NotifyGet(p)
    \/ \E p \in Senders : NotifySending(p)
    \/ \E p \in Senders : NotifyAnswer(p)
    \/ Tick

SpecNotify == InitNotify /\ [][NextNotify]_vars

(***************************************************************************)
(* The single-check scenario: a simple check with timeout 60 s and grace   *)
(* 30 s, no archive; pings arrive on a grid of instants.                   *)
(***************************************************************************)
ScenarioMaxNow == 200
ScenarioGrid == 50

InitScenario ==
    /\ check = NewCheck([kind |-> "simple", schedule |-> 0..(CronCycle - 1)],
                        60, 30, FALSE, "new")
    /\ pings = <<>>
    /\ flips = <<>>
    /\ notifications = <<>>
    /\ objects = {}
    /\ settings = [S3_BUCKET |-> FALSE, ping_log_limit |-> 100]
    /\ now = 0
    /\ pc = "idle"
    /\ call = NoCall
    /\ threads = {}
    /\ EncIdle /\ BucketIdle /\ AlertIdle

ScenarioPing(action) ==
    /\ now % ScenarioGrid = 0
    /\ PingCall(action, BODY_INLINE_MAX)

ScenarioTick ==
    /\ now < ScenarioMaxNow
    /\ now' = now + 1
    /\ UNCHANGED <<ingestVars, notifications, encVars, bucketVars, alertVars>>

NextScenario ==
    \/ \E action \in Actions : ScenarioPing(action)
    \/ ScenarioTick

SpecScenario == InitScenario /\ [][NextScenario]_vars

(***************************************************************************)
(* Claims about ping ingestion and the status computation.                 *)
(***************************************************************************)
Last(seq) == seq[Len(seq)]

\* The action of the ping call made in this step, after the manual_resume
\* coercion: the call holds it while it waits for the archive, and the Ping
\* row it saved records it otherwise.
StepAction ==
    LET kind == IF pc' = "put_object" THEN call'.action
                ELSE Last(pings').kind
    IN IF kind = "" THEN "success" ELSE kind

IsPingStep == check'.n_pings = check.n_pings + 1

\* C1: a call to Check.ping creates a Flip if and only if the ping changes the
\* stored status, that is, the coerced action is success or fail and its
\* resulting status differs from the stored one; the Flip records exactly the
\* old and the new status.
C1_FlipIffStatusChanges ==
    [][IsPingStep =>
        LET changed == check'.status # check.status
            resulting == IF StepAction = "fail" THEN "down" ELSE "up"
        IN /\ changed <=> (StepAction \in {"success", "fail"}
                           /\ resulting # check.status)
           /\ changed => check'.status = resulting
           /\ IF changed
                  THEN flips' = Append(flips,
                          [created |-> now, old_status |-> check.status,
                           new_status |-> check'.status, processed |-> None])
                  ELSE flips' = flips]_vars

\* C1 witness: two success pings in a row, the second of which made no Flip.
C1_Witness ==
    /\ Len(pings) = 2
    /\ pings[1].kind = "" /\ pings[2].kind = ""
    /\ Len(flips) = 1
    /\ flips[1].new_status = "up"

\* C2, as claimed: the Ping rows of the check carry the sequence numbers
\* 1, 2, 3, ... with no gaps.
C2_SequenceHasNoGaps ==
    pc = "idle" => \A i \in 1..Len(pings) : pings[i].n = i

\* The grace start of an up check with no unfinished start, stated from the
\* schedule: last_ping + timeout, or the first instant after last_ping that
\* the cron schedule matches.
ExpectedGraceStart(c) ==
    IF c.kind = "simple" THEN c.last_ping + c.timeout
    ELSE CHOOSE t \in (c.last_ping + 1)..(c.last_ping + CronCycle) :
            /\ CronMatch(c.schedule, t)
            /\ \A u \in (c.last_ping + 1)..(t - 1) : ~CronMatch(c.schedule, u)

UpAndNotStarted == check.status = "up" /\ check.last_start = None

\* C3, amended: for an up check with no unfinished start, get_status reports
\* down whenever now >= grace_end, grace whenever grace_start <= now <
\* grace_end, and up only while now < grace_start.
C3_StatusByDeadline ==
    UpAndNotStarted =>
        LET grace_start == ExpectedGraceStart(check)
            grace_end == grace_start + check.grace
        IN \A with_started \in BOOLEAN :
            /\ now >= grace_end => get_status(check, now, with_started) = "down"
            /\ (grace_start <= now /\ now < grace_end)
                   => get_status(check, now, with_started) = "grace"
            /\ now < grace_start => get_status(check, now, with_started) = "up"

\* C3, as claimed: up is reported whenever grace_start <= now < grace_end.
C3_UpWithinGrace ==
    UpAndNotStarted =>
        LET grace_start == ExpectedGraceStart(check)
            grace_end == grace_start + check.grace
        IN \A with_started \in BOOLEAN :
            /\ now >= grace_end => get_status(check, now, with_started) = "down"
            /\ (grace_start <= now /\ now < grace_end)
                   => get_status(check, now, with_started) = "up"

\* C3 witness: a cron check inside its grace window.
C3_Witness ==
    /\ UpAndNotStarted
    /\ check.kind = "cron"
    /\ ExpectedGraceStart(check) <= now
    /\ now < ExpectedGraceStart(check) + check.grace

OneSuccessPingAtZero ==
    /\ pc = "idle"
    /\ check.n_pings = 1
    /\ Len(pings) = 1
    /\ pings[1].kind = "" /\ pings[1].created = 0

\* C4, amended: after one success ping at t = 0 (timeout 60, grace 30) the
\* stored status is up and alert_after is 90; get_status reports grace at
\* t = 89, down at t = 91, and down at t = 200 with with_started = True.
C4_Scenario ==
    OneSuccessPingAtZero =>
        /\ check.status = "up"
        /\ check.alert_after = 90
        /\ now = 89 => get_status(check, now, FALSE) = "grace"
        /\ now = 91 => get_status(check, now, FALSE) = "down"
        /\ now = 200 => get_status(check, now, TRUE) = "down"

\* C4, as claimed: get_status reports up at t = 89.
C4_UpAt89 ==
    (OneSuccessPingAtZero /\ now = 89) => get_status(check, now, FALSE) = "up"

\* C4 witness: the scenario at t = 89.
C4_Witness == OneSuccessPingAtZero /\ now = 89

(***************************************************************************)
(* enc as a function: the inputs are non-negative integers written as      *)
(* decimal numerals, the way str(n) writes them - every integer up to      *)
(* MaxEncN, and powers of ten with 27, 123 and 124 digits.                 *)
(***************************************************************************)
MaxEncN == 110

PowerOfTen(zeros) == <<ORD_ZERO + 1>> \o [i \in 1..zeros |-> ORD_ZERO]

Numerals ==
    {str(n) : n \in 0..MaxEncN}
    \cup {PowerOfTen(zeros) : zeros \in {ASCII_Z - 96, ASCII_Z, ASCII_Z + 1}}

\* a < b for the integers that the numerals a and b write
NumLess(a, b) ==
    \/ Len(a) < Len(b)
    \/ Len(a) = Len(b) /\ \E i \in 1..Len(a) :
            /\ a[i] < b[i]
            /\ \A j \in 1..(i - 1) : a[j] = b[j]

InitEnc ==
    /\ enc_in \in Numerals \X Numerals
    /\ enc_out = <<>>
    /\ check = NewCheck([kind |-> "simple", schedule |-> 0..(CronCycle - 1)],
                        2, 1, FALSE, "new")
    /\ pings = <<>>
    /\ flips = <<>>
    /\ notifications = <<>>
    /\ objects = {}
    /\ settings = [S3_BUCKET |-> FALSE, ping_log_limit |-> 100]
    /\ now = 0
    /\ pc = "idle"
    /\ call = NoCall
    /\ threads = {}
    /\ BucketIdle /\ AlertIdle

EncCall ==
    /\ enc_out = <<>>
    /\ enc_out' = <<enc_call(enc_in[1]), enc_call(enc_in[2])>>
    /\ UNCHANGED <<ingestVars, notifications, now, enc_in, bucketVars, alertVars>>

NextEnc == EncCall

SpecEnc == InitEnc /\ [][NextEnc]_vars

EncDigitLimit == ASCII_Z + 1

\* C5, amended: for all non-negative integers a and b of at most 123 decimal
\* digits, enc(a) = enc(b) only if a = b, and enc(a) < enc(b) in the order of
\* strings if and only if a > b, also when a and b differ in their number of
\* digits; on an integer of more than 123 digits enc raises.
C5_EncReversesOrder ==
    enc_out # <<>> =>
        LET a == enc_in[1]
            b == enc_in[2]
        IN /\ enc_out[1].raised <=> Len(a) > EncDigitLimit
           /\ enc_out[2].raised <=> Len(b) > EncDigitLimit
           /\ (~enc_out[1].raised /\ ~enc_out[2].raised) =>
                /\ enc_out[1].key = enc_out[2].key => a = b
                /\ StrLess(enc_out[1].key, enc_out[2].key) <=> NumLess(b, a)

\* C5, as claimed: for all non-negative integers a and b, enc yields keys,
\* equal only if a = b and ordered in reverse of a and b.
C5_EncTotal ==
    enc_out # <<>> =>
        LET a == enc_in[1]
            b == enc_in[2]
        IN /\ ~enc_out[1].raised /\ ~enc_out[2].raised
           /\ enc_out[1].key = enc_out[2].key => a = b
           /\ StrLess(enc_out[1].key, enc_out[2].key) <=> NumLess(b, a)

\* C5 witness: enc(10) sorts before enc(9), a number with fewer digits.
C5_Witness ==
    /\ enc_out # <<>>
    /\ enc_in = <<str(10), str(9)>>
    /\ StrLess(enc_out[1].key, enc_out[2].key)

(***************************************************************************)
(* Claims about pruning.                                                   *)
(***************************************************************************)
Range(seq) == {seq[i] : i \in 1..Len(seq)}

ArchiveKeysUpTo(threshold) == {object_key(CODE, n) : n \in 0..threshold}

\* A step in which a Check.ping call that prunes saves its Ping row.
IsPruningStep ==
    /\ (PutObjectDone \/ \E body \in Bodies : ping("success", body) /\ pc' = "idle")
    /\ check'.n_pings % PRUNE_EVERY = 0

\* The threads that moved in this step.
MovedThreads == {th \in threads' \ threads : th.at # "started"}

ShortCapacities == {20}

BackToBack == bcalls.at = bcalls.first

WithinFirstPeriod == bcalls.at - bcalls.first < bcfg.refill_time_secs

C8_FullAfterIdlePeriod ==
    /\ bucket # <<>> => ~FloatLess(FloatOne, bucket.tokens)
    /\ bcalls.n > 0 =>
        /\ ~FloatLess(FloatOne, bcalls.topped)
        /\ bcalls.burst <= bcfg.capacity
        /\ (bcalls.n > 1 /\ bcalls.at - bcalls.prev >= bcfg.refill_time_secs)
                => bcalls.topped = FloatOne /\ bcalls.ok

\* C8 witness: a call made a full period after a rejected one found 1.0.
C8_Witness ==
    /\ bcalls.n > 2
    /\ bcalls.at - bcalls.prev >= bcfg.refill_time_secs
    /\ bucket.updated = bcalls.at
    /\ bcalls.topped = FloatOne
    /\ FloatLess(bucket.tokens, FloatOne)

\* A step in which authorize is called.
IsAuthorizeStep == bcalls'.n = bcalls.n + 1

\* C9, amended: a call that authorize rejects leaves the stored row of the key
\* as it was: neither the balance nor the timestamp is saved.
C9_RejectedCallSavesNothing ==
    [][(IsAuthorizeStep /\ ~bcalls'.ok) => bucket' = bucket]_vars

\* C9, as claimed: the stored balance after a rejected call is lower than the
\* stored balance before it.
C9_RejectedCallIsCharged ==
    [][(IsAuthorizeStep /\ ~bcalls'.ok)
            => FloatLess(bucket'.tokens, bucket.tokens)]_vars

\* C9 witness: a call was rejected some time after the row was last saved,
\* with a balance topped up above the stored one.
C9_Witness ==
    /\ bcalls.n > 0
    /\ ~bcalls.ok
    /\ bucket.updated < bcalls.at
    /\ FloatLess(bucket.tokens, bcalls.topped)

(***************************************************************************)
(* Claims about Flip.send_alerts.                                          *)
(***************************************************************************)
\* C10: send_alerts on a flip from new or paused to up calls no transport,
\* creates no Notification, changes no Channel row and yields nothing,
\* whatever channels are assigned.
C10_NoAlertsOnFirstUp ==
    [][(alert.flip.new_status = "up" /\ alert.flip.old_status \in {"new", "paused"}) =>
            /\ alert'.invoked = 0
            /\ alert'.yielded = <<>>
            /\ notifications' = <<>>
            /\ channels' = channels
            /\ alert'.pc \in {"created", "returned"}]_vars

\* C10 witness: send_alerts has returned on a flip from paused to up of a
\* check with two channels that are not disabled.
C10_Witness ==
    /\ alert.flip = [old_status |-> "paused", new_status |-> "up"]
    /\ alert.pc = "returned"
    /\ Len(channels) = MaxChannels
    /\ \A i \in 1..Len(channels) : channels[i].disabled # "true"
    /\ notifications = <<>>

UpToDown == [old_status |-> "up", new_status |-> "down"]

\* The notifications and the outcomes that name channel i.
NotificationsOf(i) == {k \in 1..Len(notifications) : notifications[k].channel = i}

YieldedOf(i) == {k \in 1..Len(alert.yielded) : alert.yielded[k].channel = i}

\* C11: when send_alerts on a flip from up to down has been consumed to its
\* end, Channel.notify was called once on every assigned channel that was not
\* disabled = true and on no other; every such channel whose transport was not
\* a no-op has exactly one Notification and one yielded outcome, and a no-op
\* channel has neither.
C11_EveryEnabledChannelOnce ==
    (alert.flip = UpToDown /\ alert.pc = "returned") =>
        LET enabled == {i \in 1..Len(alert.before) :
                            alert.before[i].disabled # "true"}
            sent == Range(alert.attempted) \ Range(alert.noops)
        IN /\ Range(alert.attempted) = enabled
           /\ Len(alert.attempted) = Cardinality(enabled)
           /\ alert.invoked = Cardinality(sent)
           /\ Len(notifications) = Cardinality(sent)
           /\ Len(alert.yielded) = Cardinality(sent)
           /\ \A i \in sent :
                /\ Cardinality(NotificationsOf(i)) = 1
                /\ Cardinality(YieldedOf(i)) = 1
           /\ \A i \in 1..Len(channels) \ sent :
                NotificationsOf(i) = {} /\ YieldedOf(i) = {}

\* C11 witness: of two channels (disabled = NULL with a no-op transport,
\* and another not disabled) the no-op one was skipped and the other
\* got its Notification.
C11_Witness ==
    /\ alert.flip = UpToDown
    /\ alert.pc = "returned"
    /\ Len(channels) = 2
    /\ alert.before[1].disabled = "null"
    /\ alert.noops = <<1>>
    /\ alert.attempted = <<1, 2>>
    /\ Len(notifications) = 1
    /\ notifications[1].channel = 2

\* A step in which the transport of the channel being notified answers.
IsTransportAnswer == alert.pc = "sending" /\ alert'.pc = "loop"

\* C12: when the transport fails in Channel.notify, a permanent failure
\* stores disabled = true, a transient one leaves the stored flag as it was,
\* and in both cases the message is stored as the Notification's error and
\* the channel's last_error, and last_notify is set to the current time.
C12_FailureIsRecorded ==
    [][IsTransportAnswer =>
        LET id == Head(alert.todo)
            answer == Last(alert'.answers)
        IN answer.error # "" =>
            /\ channels'[id].disabled =
                    (IF answer.permanent THEN "true" ELSE channels[id].disabled)
            /\ channels'[id].last_error = answer.error
            /\ channels'[id].last_notify = now
            /\ Last(notifications').error = answer.error
            /\ Last(notifications').channel = id
            /\ \A i \in 1..Len(channels) : i # id => channels'[i] = channels[i]]_vars

\* C12 witness: a channel with disabled = false failed transiently and is
\* still enabled, with the message stored in both rows.
C12_Witness ==
    /\ alert.answers = <<[error |-> "failed", permanent |-> FALSE]>>
    /\ alert.before[1].disabled = "false"
    /\ alert.attempted = <<1>>
    /\ channels[1] = [disabled |-> "false", last_notify |-> now,
                      last_error |-> "failed"]
    /\ notifications[1].error = "failed"

\* C13: send_alerts on a flip whose new_status is neither up nor down raises
\* on its first step, having called no transport and created no Notification;
\* it never returns normally.
C13_UnexpectedStatusRaises ==
    [][alert.flip.new_status \notin {"up", "down"} =>
        /\ alert'.pc \in {"created", "raised"}
        /\ (alert.pc = "created" /\ alert' # alert) => alert'.pc = "raised"
        /\ alert'.invoked = 0
        /\ alert'.attempted = <<>>
        /\ notifications' = <<>>
        /\ channels' = channels]_vars

\* C13 witness: send_alerts has raised on a flip from up to paused of a check
\* with an enabled channel.
C13_Witness ==
    /\ alert.flip = [old_status |-> "up", new_status |-> "paused"]
    /\ alert.pc = "raised"
    /\ Len(channels) > 0
    /\ channels[1].disabled = "false"

(***************************************************************************)
(* Claims about the fields a ping touches and where its body goes.         *)
(***************************************************************************)
PausedForGood(c) == c.status = "paused" /\ c.manual_resume

\* A step in which Check.ping is called with the given action.
IsPingOf(action) == \E body \in Bodies : ping(action, body)

\* C14, as claimed: a ping of any action on a check that is paused with
\* manual_resume leaves status, last_ping, last_start and last_duration as
\* they were and creates no Flip, adds one to the ping counter, and a Ping row
\* of kind ign with the new number is recorded.
C14_PausedPingIsRecorded ==
    [][/\ (IsPingStep /\ PausedForGood(check)) =>
            /\ check'.status = check.status
            /\ check'.last_ping = check.last_ping
            /\ check'.last_start = check.last_start
            /\ check'.last_duration = check.last_duration
            /\ flips' = flips
       /\ (PausedForGood(check') /\ pc' = "idle") =>
            \A n \in 1..check'.n_pings :
                \E i \in 1..Len(pings') :
                    pings'[i].n = n /\ pings'[i].kind = "ign"]_vars

Timestamps(c) == <<c.last_ping, c.last_start, c.last_duration>>

\* C15, amended: a success or fail ping on a check that is not paused with
\* manual_resume sets last_ping to the ping's time, sets last_duration to
\* last_ping - last_start and clears last_start when there was an unfinished
\* start, and clears last_duration otherwise, so that no unfinished start is
\* left; on a check paused with manual_resume the ping is taken as ign and
\* changes none of the three fields.
C15_PingSetsTimestamps ==
    [][\A action \in {"success", "fail"} : IsPingOf(action) =>
        IF PausedForGood(check)
            THEN Timestamps(check') = Timestamps(check)
            ELSE /\ check'.last_ping = now
                 /\ check'.last_start = None
                 /\ check'.last_duration =
                        (IF check.last_start # None THEN now - check.last_start
                         ELSE None)]_vars

\* C15, as claimed: every success or fail ping sets last_ping to its time and
\* leaves no unfinished start.
C15_EveryPingSetsTimestamps ==
    [][\A action \in {"success", "fail"} : IsPingOf(action) =>
        /\ check'.last_ping = now
        /\ check'.last_start = None
        /\ check'.last_duration =
                (IF check.last_start # None THEN now - check.last_start
                 ELSE None)]_vars

\* C15 witness: a start and, one second later, a success or fail ping, which
\* left last_duration = 1 and no unfinished start.
C15_Witness ==
    /\ Len(pings) = 2
    /\ pings[1].kind = "start" /\ pings[1].created = 0
    /\ pings[2].kind \in {"", "fail"} /\ pings[2].created = 1
    /\ check.last_ping = 1
    /\ check.last_duration = 1
    /\ check.last_start = None

\* A step in which a Ping row is saved.
IsRowSaved == Len(pings') = Len(pings) + 1

\* C20: every Ping row holds its body either in the archive (object_size set,
\* no body_raw) or inline (body_raw set, no object_size), never both; it is
\* in the archive only when the body is longer than 100 bytes and the archive
\* is configured, and the step that saves the row has written the object
\* under (code, n) in that case and no object otherwise.
C20_BodyInOnePlace ==
    [][IsRowSaved =>
        LET row == Last(pings')
            archived == row.object_size # None
        IN /\ archived <=> row.body_raw = None
           /\ archived <=> (settings.S3_BUCKET
                            /\ row.object_size > BODY_INLINE_MAX)
           /\ ~archived => (~settings.S3_BUCKET \/ row.body_raw <= BODY_INLINE_MAX)
           /\ objects' = IF archived THEN objects \cup {object_key(CODE, row.n)}
                         ELSE objects
           /\ archived => object_key(CODE, row.n) \notin objects]_vars

\* C20 witness: with the archive configured, a body of 101 bytes went to the
\* archive and one of 100 bytes stayed inline.
C20_Witness ==
    /\ settings.S3_BUCKET
    /\ Len(pings) = 2
    /\ pings[1].object_size = BODY_INLINE_MAX + 1 /\ pings[1].body_raw = None
    /\ pings[2].body_raw = BODY_INLINE_MAX /\ pings[2].object_size = None
    /\ objects = {object_key(CODE, 1)}

(***************************************************************************)
(* Claims about concurrent Check.ping calls.                               *)
(***************************************************************************)
Saved == {p \in Requests : pc[p] \in {"saved", "refreshed", "done"}}

AllDone == \A p \in Requests : pc[p] = "done"

\* C16: whatever the interleaving of concurrent Check.ping calls, the stored
\* ping counter is the number of calls that have saved the check; when all
\* calls are done it has grown by exactly the number of calls.
C16_NoIncrementLost ==
    /\ check.n_pings = Cardinality(Saved)
    /\ AllDone => check.n_pings = MaxRequests

\* C16 witness: all calls are done, two of them having read the counter back
\* after both had saved (their Ping rows carry the same n).
C16_Witness ==
    /\ AllDone
    /\ check.n_pings = MaxRequests
    /\ pings[1].n = pings[2].n

\* The orders in which the calls can be run one after another.
Orders == {o \in [Requests -> Requests] : \A p, q \in Requests : o[p] = o[q] => p = q}

\* The row, the Flips and the sequence numbers after the calls o[i], o[i+1],
\* ... are run one after another, each with its own action and time.
RECURSIVE SerialRun(_, _, _)
SerialRun(st, o, i) ==
    IF i > MaxRequests THEN st
    ELSE LET c == call[o[i]]
             r == ping_update(st.check, c.action_arg, c.frozen_now)
             saved == save_check(st.check, r.obj)
         IN SerialRun([check |-> saved,
                       flips |-> st.flips \o r.flip,
                       ns |-> st.ns \cup {saved.n_pings}],
                      o, i + 1)

\* The check as it was before the calls: only ping changes it.
CheckBefore ==
    NewCheck([kind |-> check.kind, schedule |-> check.schedule], check.timeout,
             check.grace, check.manual_resume,
             IF check.manual_resume /\ check.status = "paused" THEN "paused"
             ELSE IF flips # <<>> THEN flips[1].old_status ELSE check.status)

\* C17, as claimed: when concurrent Check.ping calls are all done, the stored
\* check, the Flips and the numbers of the Ping rows are those of the calls
\* run one after another in some order; no two Ping rows share an n and no
\* two Flips record the same change.
C17_AsIfSerial ==
    AllDone =>
        /\ \E o \in Orders :
             LET serial == SerialRun([check |-> CheckBefore, flips |-> <<>>,
                                      ns |-> {}], o, 1)
             IN /\ check = serial.check
                /\ Range(flips) = Range(serial.flips)
                /\ Len(flips) = Len(serial.flips)
                /\ {pings[i].n : i \in 1..Len(pings)} = serial.ns
        /\ \A i, j \in 1..Len(pings) : pings[i].n = pings[j].n => i = j
        /\ \A i, j \in 1..Len(flips) :
             (flips[i].old_status = flips[j].old_status
              /\ flips[i].new_status = flips[j].new_status
              /\ flips[i].old_status \in {"new", "paused"}) => i = j

(***************************************************************************)
(* Claims about concurrent TokenBucket.authorize calls.                    *)
(***************************************************************************)
Accepted == {p \in Returned : bcalls[p].ok}

Began == {p \in Callers : bcalls[p].pc # "idle"}

\* No two of the calls made so far overlapped: each began after the ones
\* before it had returned.
OneAfterAnother ==
    \A p, q \in Began : p # q => (p \in bcalls[q].after \/ q \in bcalls[p].after)

C19_DisabledStaysDisabled ==
    [][channels[THE_CHANNEL].disabled = "true"
            => channels'[THE_CHANNEL].disabled = "true"]_vars

(***************************************************************************)
(* Claims about failures while pruning.                                    *)
(***************************************************************************)
\* A step in which a Check.ping call that prunes ends with the exception of
\* a local delete.
IsLocalDeleteFailure == pc # "raised" /\ pc' = "raised"

\* The thread that Check.prune started in this step, if the archive is
\* configured: it has not talked to the store yet.
ThreadJustStarted(threshold) ==
    IF settings.S3_BUCKET
        THEN \E th \in threads' \ threads :
                th.upto_n = threshold /\ th.at = "started"
        ELSE threads' = threads

\* C21: a Check.ping call that prunes returns with the check saved and its
\* Ping row saved (and kept, unless the retention threshold covers it), the
\* archive deletion left to a thread that has not yet reached the store; what
\* the store answers to that thread later (a listing error, deletion errors)
\* changes neither the check, the Ping rows nor the call.  A failing local
\* delete ends the same call with an exception, after the thread was started.
C21_ArchiveFailureStaysInThread ==
    [][/\ IsPruningStep =>
            LET threshold == check'.n_pings - settings.ping_log_limit
            IN /\ pc' = "idle"
               /\ check'.last_ping = now
               /\ check'.n_pings > threshold
                    => Last(pings').n = check'.n_pings
               /\ ThreadJustStarted(threshold)
               /\ objects \subseteq objects'
       /\ MovedThreads # {} =>
            /\ UNCHANGED <<check, pings, flips, notifications, pc, call>>
       /\ IsLocalDeleteFailure =>
            LET threshold == check'.n_pings - settings.ping_log_limit
            IN /\ check'.n_pings % PRUNE_EVERY = 0
               /\ ThreadJustStarted(threshold)
               /\ objects \subseteq objects']_vars

\* C21 witness: the call that pruned has returned, its row is kept, and the
\* thread it started has ended with the store's error, deleting nothing.
C21_Witness ==
    /\ pc = "idle"
    /\ check.n_pings = PRUNE_EVERY
    /\ pings # <<>> /\ Last(pings).n = PRUNE_EVERY
    /\ object_key(CODE, 9) \in objects
    /\ \E th \in threads : th.at = "raised" /\ th.upto_n >= 9

(***************************************************************************)
(* Claims about put_object.                                                *)
(***************************************************************************)
\* C22: while put_object is pending, a step of it is a retry (nothing is
\* written, the call stays in the loop), a return (the object is in the
\* archive and the row of the call is saved, then pruned with the rows that
\* the retention limit covers if the call is a pruning one) or a raise (nothing is written
\* and the call is over, with no further retry); and with a store that does
\* not answer InternalError forever the pending call ends.
C22_PutObjectLoop ==
    /\ [][(pc = "put_object" /\ now' = now) =>
            \/ /\ pc' = "put_object"
               /\ call' = [call EXCEPT !.tries = @ + 1]
               /\ UNCHANGED <<objects, pings, check>>
            \/ /\ pc' = "idle"
               /\ object_key(CODE, call.n) \in objects'
               /\ LET row == ping_row(call.n, call.created, call.action,
                                       call.body, TRUE)
                      Kept(r) == r.n > call.n - settings.ping_log_limit
                  IN pings' = IF call.n % PRUNE_EVERY = 0
                                  THEN SelectSeq(Append(pings, row), Kept)
                                  ELSE Append(pings, row)
            \/ /\ pc' = "idle"
               /\ UNCHANGED <<objects, pings, check>>]_vars
    /\ (pc = "put_object" ~> pc = "idle")

\* C22 witness: put_object has retried after an InternalError and is still
\* in its loop.
C22_Witness ==
    /\ pc = "put_object"
    /\ call.tries >= 1
    /\ object_key(CODE, call.n) \notin objects

(***************************************************************************)
(* Claims about the status computation.                                    *)
(***************************************************************************)
StaleStart == check.last_start # None /\ now >= check.last_start + check.grace

\* C23: a check with an unfinished start that is a grace time old or older
\* is reported down, with and without with_started, whatever its stored
\* status, its last ping and its timeout or schedule.
C23_StaleStartIsDown ==
    StaleStart => \A with_started \in BOOLEAN :
                     get_status(check, now, with_started) = "down"

\* C23 witness: a stale start on a check that is stored up and whose last
\* success is recent enough for the deadline rule to say up.
C23_Witness ==
    /\ StaleStart
    /\ check.status = "up"
    /\ now < get_grace_start(check, FALSE)

\* The instant at which a check goes down, stated from its fields: none for
\* a down check; for a new or paused one the unfinished start, if any, plus
\* grace; for an up one the earlier of the schedule's grace start and the
\* unfinished start, plus grace.
ExpectedGoingDownAfter(c) ==
    IF c.status = "down" THEN None
    ELSE IF c.status \in {"new", "paused"}
        THEN IF c.last_start = None THEN None ELSE c.last_start + c.grace
    ELSE IF c.last_start = None THEN ExpectedGraceStart(c) + c.grace
    ELSE Min(ExpectedGraceStart(c), c.last_start) + c.grace

ListedNumerals ==
    {str(n) : n \in {0, 1, 9, 10, 11, 100}}
    \cup {PowerOfTen(ASCII_Z - 96), PowerOfTen(ASCII_Z)}

ListBounds == ListedNumerals \cup {PowerOfTen(ASCII_Z + 1)}

numeral_key(code, s) == remove_prefix(code) \o enc_key(s)

\* lines 92-94 with enc(T) as the bound: the names listed, or the ValueError
\* of enc
list_call(stored, code, t) ==
    IF enc_raises(t) THEN [raised |-> TRUE, names |-> {}]
    ELSE [raised |-> FALSE,
          names |-> list_objects(stored, remove_prefix(code),
                                 numeral_key(code, t))]

InitList ==
    /\ enc_in \in {<<t>> : t \in ListBounds}
    /\ enc_out = <<>>
    /\ \E present \in SUBSET ListedNumerals :
            objects = {numeral_key(CODE, s) : s \in present} \cup OtherObjects
    /\ check = NewCheck([kind |-> "simple", schedule |-> 0..(CronCycle - 1)],
                        2, 1, FALSE, "new")
    /\ pings = <<>>
    /\ flips = <<>>
    /\ notifications = <<>>
    /\ settings = [S3_BUCKET |-> TRUE, ping_log_limit |-> 100]
    /\ now = 0
    /\ pc = "idle"
    /\ call = NoCall
    /\ threads = {}
    /\ BucketIdle /\ AlertIdle

ListCall ==
    /\ enc_out = <<>>
    /\ enc_out' = <<list_call(objects, CODE, enc_in[1])>>
    /\ UNCHANGED <<ingestVars, notifications, now, enc_in, bucketVars, alertVars>>

NextList == ListCall

SpecList == InitList /\ [][NextList]_vars

\* The sequence numbers of the check's stored keys.
StoredNumerals == {u \in ListedNumerals : numeral_key(CODE, u) \in objects}

\* C25, amended: listing the check's keys with start_after = enc(T) returns
\* exactly the stored keys of that check with n < T (the key of T itself is
\* not returned), for every T of at most 123 digits and every set of stored
\* keys; for a T of more digits enc raises and nothing is listed.
C25_ListsBelowBound ==
    enc_out # <<>> =>
        LET t == enc_in[1]
            below == {u \in StoredNumerals : NumLess(u, t)}
        IN /\ enc_out[1].raised <=> Len(t) > EncDigitLimit
           /\ ~enc_out[1].raised
                => enc_out[1].names = {numeral_key(CODE, u) : u \in below}

\* C25, as claimed: the listing returns exactly the stored keys with n <= T,
\* for every T.
C25_ListsUpToBound ==
    enc_out # <<>> =>
        LET t == enc_in[1]
            upto == {u \in StoredNumerals : NumLess(u, t) \/ u = t}
        IN /\ ~enc_out[1].raised
           /\ enc_out[1].names = {numeral_key(CODE, u) : u \in upto}

\* C25 witness: with the keys of 9 and 10 stored, the listing from enc(10)
\* returns the key of 9 and not the key of 10.
C25_Witness ==
    /\ enc_out # <<>>
    /\ enc_in = <<str(10)>>
    /\ {object_key(CODE, 9), object_key(CODE, 10)} \subseteq objects
    /\ object_key(CODE, 9) \in enc_out[1].names
    /\ object_key(CODE, 10) \notin enc_out[1].names

\* The instants at which the status of the stored check is asked: from now
\* until after every deadline the check can have.
StatusTimes == now..(MaxNow + CronCycle + 2)

\* What get_status may report later, given what it reports now.
LaterStatuses(status) ==
    IF status = "down" THEN {"down"}
    ELSE IF status = "grace" THEN {"grace", "down"}
    ELSE IF status = "up" THEN {"up", "grace", "down"}
    ELSE {status, "down"}

\* C26: while time passes and no ping reaches the check,
\* get_status(with_started=False) is monotone: down stays down, grace stays
\* grace or becomes down and never up, up stays up or becomes grace or down,
\* and new or paused stay or become down.
C26_StatusMonotoneInTime ==
    [][(now' > now /\ check' = check) =>
        LET status == get_status(check, now, FALSE)
        IN /\ status \in {"new", "paused", "up", "grace", "down"}
           /\ get_status(check', now', FALSE) \in LaterStatuses(status)]_vars

\* C26 witness: time has passed over a check that was up, then in grace, and
\* is down now.
C26_Witness ==
    /\ check.n_pings >= 1
    /\ check.last_ping # None
    /\ check.last_ping <= now - 2
    /\ get_status(check, now - 2, FALSE) = "up"
    /\ get_status(check, now - 1, FALSE) = "grace"
    /\ get_status(check, now, FALSE) = "down"

\* A Check.ping call has completed and none is running.
AfterPing == pc = "idle" /\ check.n_pings >= 1

\* C27: after a completed Check.ping the stored alert_after agrees with the
\* status computation: a check stored down has no alert_after, and a check
\* not stored down is reported down by get_status(with_started=False) at an
\* instant t at or after the ping exactly when alert_after is set and
\* t >= alert_after.
C27_AlertAfterAgreesWithStatus ==
    AfterPing =>
        /\ check.status = "down" => check.alert_after = None
        /\ check.status # "down" =>
             \A t \in StatusTimes :
                get_status(check, t, FALSE) = "down"
                    <=> (check.alert_after # None /\ t >= check.alert_after)

\* C27 witness: an up check with an unfinished start whose alert_after, the
\* start plus grace, is reached before the deadline of its last success.
C27_Witness ==
    /\ AfterPing
    /\ check.status = "up"
    /\ check.last_start # None
    /\ check.alert_after = check.last_start + check.grace
    /\ check.alert_after < ExpectedGraceStart(check) + check.grace
    /\ now >= check.alert_after
    /\ get_status(check, now, FALSE) = "down"

(***************************************************************************)
(* Claims about the number of local Ping rows.                             *)
(***************************************************************************)
\* A step in which a Check.ping call returns.
IsCompletedPing ==
    PutObjectDone \/ \E body \in Bodies : ping("success", body) /\ pc' = "idle"

\* C28: after every completed Check.ping the check has at most
\* ping_log_limit + 99 local Ping rows, and after a completed ping whose
\* sequence number is a multiple of 100 it has at most ping_log_limit rows,
\* all of them among the ping_log_limit highest sequence numbers.
C28_RowsWithinRetention ==
    [][IsCompletedPing =>
        LET limit == settings.ping_log_limit
            n == check'.n_pings
        IN /\ Len(pings') <= limit + (PRUNE_EVERY - 1)
           /\ n % PRUNE_EVERY = 0 =>
                /\ Len(pings') <= limit
                /\ \A i \in 1..Len(pings') : pings'[i].n > n - limit]_vars

(***************************************************************************)
(* Claims about rejected calls of TokenBucket.authorize.                   *)
(***************************************************************************)
\* C29: the stored timestamp of a key is the instant of its last authorized
\* call (an authorized call stores its own instant, a rejected call leaves
\* the timestamp as it was), and a call made refill_time_secs / capacity
\* seconds or more after that instant is authorized, however many calls
\* were rejected in between.
C29_RejectedCallsPostponeNothing ==
    [][IsAuthorizeStep =>
        /\ bcalls'.ok => bucket'.updated = now
        /\ (~bcalls'.ok /\ bucket # <<>>) => bucket'.updated = bucket.updated
        /\ (bucket # <<>>
            /\ (now - bucket.updated) * bcfg.capacity >= bcfg.refill_time_secs)
                => bcalls'.ok]_vars

\* C29 witness: under the capacity-1 policy a call at 0 was authorized, a
\* call before the period was over was rejected, and the call at the end of
\* the period is authorized.
C29_Witness ==
    /\ bcfg.capacity = 1
    /\ bcalls.n = 3
    /\ bcalls.first = 0
    /\ bcalls.prev > 0
    /\ bcalls.prev < bcfg.refill_time_secs
    /\ bcalls.at >= bcfg.refill_time_secs
    /\ bcalls.ok
    /\ bucket.updated = bcalls.at

====
